---- MODULE Spec2Model ----
(***************************************************************************)
(* Financial query system: the cache key (cacheService.js), the guard and  *)
(* the executor (langchain/queryChain.js) and the orchestration of one     *)
(* request (services/queryService.js).                                     *)
(*                                                                         *)
(* JavaScript strings are sequences of one-character strings.  A           *)
(* JavaScript object is a function whose DOMAIN holds the keys that are    *)
(* present; a key that is absent (or null) is not in the DOMAIN.           *)
(***************************************************************************)
EXTENDS Integers, Sequences, FiniteSets, TLC

VARIABLES
    kin,            \* KeySpec: the two (userId, question) pairs handed in
    kout,           \* KeySpec: the path taken and the two cache keys
    gin,            \* GuardSpec: the parsed query and the requesting userId
    gout,           \* GuardSpec: position, the guard's output, the execution
    req,            \* Spec: every processQuery invocation's local state
    cache,          \* Spec: the contents of the Redis store
    cacheEnabled,   \* Spec: config.cache.enabled
    redisConnected, \* Spec: redisClient.isOpen && redisClient.isReady
    db,             \* the MongoDB collections
    cacheConfig,    \* config.cache: CACHE_TTL of the environment and the ttl
    invalidated,    \* what the last call of invalidateCache returned
    server          \* startServer: its position and how the connections ended

vars ==
    <<kin, kout, gin, gout, req, cache, cacheEnabled, redisConnected, db,
      cacheConfig, invalidated, server>>

(***************************************************************************)
(* Bounds                                                                  *)
(***************************************************************************)
MaxQLen == 4        \* longest question drawn letter by letter
MaxStages == 2      \* longest aggregation pipeline the translation returns

(***************************************************************************)
(* config/index.js: cache.ttl = parseInt(process.env.CACHE_TTL) || 3600    *)
(***************************************************************************)
DefaultTtl == 3600

DigitChars == {"0", "1", "2", "3", "4", "5", "6", "7", "8", "9"}

DigitValue(c) ==
    CASE c = "0" -> 0 [] c = "1" -> 1 [] c = "2" -> 2 [] c = "3" -> 3
      [] c = "4" -> 4 [] c = "5" -> 5 [] c = "6" -> 6 [] c = "7" -> 7
      [] c = "8" -> 8 [] c = "9" -> 9

RECURSIVE ParseDigits(_, _)
ParseDigits(s, acc) ==
    IF s = <<>> \/ Head(s) \notin DigitChars THEN acc
    ELSE ParseDigits(Tail(s), acc * 10 + DigitValue(Head(s)))

\* parseInt of a variable of the environment (<<>>: not set): <<n>> for the
\* number its sign and leading digits spell, <<>> for NaN
ParseInt(s) ==
    IF s = <<>> THEN <<>>
    ELSE IF Head(s) = "-"
    THEN IF Tail(s) = <<>> \/ Head(Tail(s)) \notin DigitChars THEN <<>>
         ELSE <<0 - ParseDigits(Tail(s), 0)>>
    ELSE IF Head(s) \notin DigitChars THEN <<>>
    ELSE <<ParseDigits(s, 0)>>

\* NaN and 0 are falsy: x || 3600
LoadConfig(env) ==
    [CACHE_TTL |-> env,
     ttl |-> IF ParseInt(env) = <<>> \/ ParseInt(env) = <<0>>
             THEN DefaultTtl ELSE ParseInt(env)[1]]

\* startServer has connected to MongoDB and to Redis and app.listen was
\* called
Serving == [pc |-> "listening", mongo |-> "connected", redis |-> "connected"]

\* invalidateCache was not called
NoInvalidation ==
    [pc |-> "idle", pattern |-> <<>>, keys |-> {}, error |-> "none",
     count |-> 0]

(***************************************************************************)
(* Strings                                                                 *)
(***************************************************************************)
Upper == <<"A","B","C","D","E","F","G","H","I","J","K","L","M",
           "N","O","P","Q","R","S","T","U","V","W","X","Y","Z">>
Lower == <<"a","b","c","d","e","f","g","h","i","j","k","l","m",
           "n","o","p","q","r","s","t","u","v","w","x","y","z">>

\* the characters /\s/ and String.prototype.trim treat as white space
IsSpace(c) == c \in {" ", "\t", "\n"}

LowerChar(c) ==
    IF \E i \in DOMAIN Upper : Upper[i] = c
    THEN Lower[CHOOSE i \in DOMAIN Upper : Upper[i] = c]
    ELSE c

\* String.prototype.toLowerCase
toLowerCase(s) == [i \in 1..Len(s) |-> LowerChar(s[i])]

\* String.prototype.trim
trim(s) ==
    LET keep == {i \in 1..Len(s) : ~IsSpace(s[i])}
        lo == CHOOSE i \in keep : \A j \in keep : i <= j
        hi == CHOOSE i \in keep : \A j \in keep : j <= i
    IN  IF keep = {} THEN <<>> ELSE SubSeq(s, lo, hi)

\* s.replace(/\s+/g, ' '): every maximal run of white space becomes one space
\* (the first character of a run is kept, as a space; the rest is dropped)
collapseSpaces(s) ==
    LET first(i) == ~IsSpace(s[i]) \/ i = 1 \/ ~IsSpace(s[i - 1])
        kept == SelectSeq([i \in 1..Len(s) |-> i], first)
    IN  [k \in 1..Len(kept) |->
            IF IsSpace(s[kept[k]]) THEN " " ELSE s[kept[k]]]

\* all strings over alphabet A of length at most n
RECURSIVE StringsUpTo(_, _)
StringsUpTo(A, n) ==
    IF n = 0 THEN {<<>>}
    ELSE LET shorter == StringsUpTo(A, n - 1)
         IN  shorter \cup {Append(s, c) : s \in shorter, c \in A}

(***************************************************************************)
(* cacheService.js: the cache key                                          *)
(***************************************************************************)
\* crypto.createHash('md5').update(s).digest('hex'), collisions aside: the
\* digest is kept as the string it was computed from.
md5(s) == [digestOf |-> s]

normalize(question) == collapseSpaces(trim(toLowerCase(question)))

\* generateCacheKey without the toLowerCase step
generateCacheKey_NoLower(question) ==
    [prefix |-> "query:", hash |-> md5(collapseSpaces(trim(question)))]

generateCacheKey(question) ==
    [prefix |-> "query:", hash |-> md5(normalize(question))]

\* queryService.js:24, const cacheKey = `${userId}:${question}`
cacheKeyString(userId, question) == userId \o <<":">> \o question

\* the Redis key processQuery reads and writes for (userId, question)
processQueryKey(userId, question) ==
    generateCacheKey(cacheKeyString(userId, question))

(***************************************************************************)
(* router.post('/query'): validation of the body                           *)
(***************************************************************************)
MaxQuestionLength == 500

\* The message of the 400 response, or "none" when the body passes.  A
\* missing or empty field is the empty string (both are falsy).
validationError(question, userId, userName) ==
    IF question = <<>> THEN "Question is required"
    ELSE IF userId = <<>> \/ userName = <<>>
         THEN "userId and userName are required. Please select a user."
    ELSE IF Len(trim(question)) = 0 THEN "Question cannot be empty"
    ELSE IF Len(question) > MaxQuestionLength
         THEN "Question is too long (max 500 characters)"
    ELSE "none"

\* { ...obj, [k]: v }
SetKey(obj, k, v) == [x \in DOMAIN obj \cup {k} |-> IF x = k THEN v ELSE obj[x]]

\* a value of the JSON body with its JavaScript type
JsString(s) == [type |-> "string", value |-> s]
JsNumber(n) == [type |-> "number", value |-> n]

\* !v of JavaScript for a string or a number
JsTruthy(v) == IF v.type = "string" THEN v.value # <<>> ELSE v.value # 0

\* the checks of POST /query without the one on the length
validateBody_NoLengthCheck(body) ==
    LET given(k) == k \in DOMAIN body /\ JsTruthy(body[k])
    IN  IF ~given("question") THEN "Question is required"
        ELSE IF ~given("userId") \/ ~given("userName")
             THEN "userId and userName are required. Please select a user."
        ELSE IF body["question"].type # "string"
             THEN "Question must be a string"
        ELSE IF Len(trim(body["question"].value)) = 0
             THEN "Question cannot be empty"
        ELSE "none"

\* the checks of POST /query with !userId in the place of
\* !userId || !userName
validateBody_UserIdOnly(body) ==
    LET given(k) == k \in DOMAIN body /\ JsTruthy(body[k])
    IN  IF ~given("question") THEN "Question is required"
        ELSE IF ~given("userId")
             THEN "userId and userName are required. Please select a user."
        ELSE IF body["question"].type # "string"
             THEN "Question must be a string"
        ELSE IF Len(trim(body["question"].value)) = 0
             THEN "Question cannot be empty"
        ELSE IF Len(body["question"].value) > MaxQuestionLength
             THEN "Question is too long (max 500 characters)"
        ELSE "none"

\* the checks of POST /query on req.body, in the order of the handler: the
\* message of the 400 response, or "none" when the body passes
validateBody(body) ==
    LET given(k) == k \in DOMAIN body /\ JsTruthy(body[k])
    IN  IF ~given("question") THEN "Question is required"
        ELSE IF ~given("userId") \/ ~given("userName")
             THEN "userId and userName are required. Please select a user."
        ELSE IF body["question"].type # "string"
             THEN "Question must be a string"
        ELSE validationError(body["question"].value, body["userId"].value,
                             body["userName"].value)

\* res.status(400).json({ error, message })
BadRequest(message) ==
    [status |-> 400,
     body |-> [error |-> "Bad Request", message |-> message]]

\* res.status(500).json({ error, message, processingTime }) of the catch
\* block; the time is Date.now() - startTime, whatever it is
ServerError(message) ==
    [status |-> 500,
     body |-> [error |-> "Query Processing Failed",
               message |-> IF message # ""
                           THEN message
                           ELSE "An error occurred while processing your query",
               processingTime |-> "elapsed"]]

\* res.json({ ...result, processingTime })
Ok(result) ==
    [status |-> 200, body |-> SetKey(result, "processingTime", "elapsed")]

NoHttp == [status |-> 0, body |-> <<>>]

\* the Redis key of a request that came through POST /query: the route
\* hands question.trim() to processQuery
routeKey(userId, question) == processQueryKey(userId, trim(question))

(***************************************************************************)
(* KeySpec: the cache key as a function of (userId, question)              *)
(***************************************************************************)
KeyUserIds == {<<"a">>, <<"A">>, <<"b">>}
KeyUserName == <<"n">>
QAlphabet == {"a", "A", " "}

FoodQuestionRaw ==
    <<" "," ","H","o","w"," ","M","u","c","h"," ","d",
      "i","d"," ","I"," ","S","p","e","n","d"," "," ",
      "o","n"," ","F","o","o","d","?">>
FoodQuestionMarked ==
    <<"h","o","w"," ","m","u","c","h"," ","d","i","d",
      " ","i"," ","s","p","e","n","d"," ","o","n"," ",
      "f","o","o","d","?">>
FoodQuestionPlain ==
    <<"h","o","w"," ","m","u","c","h"," ","d","i","d",
      " ","i"," ","s","p","e","n","d"," ","o","n"," ",
      "f","o","o","d">>

KeyQuestions ==
    StringsUpTo(QAlphabet, MaxQLen)
        \cup {FoodQuestionRaw, FoodQuestionMarked, FoodQuestionPlain}

NoKey == generateCacheKey(<<>>)

KeyIdle ==
    /\ gin = [q |-> [collection |-> "users", operation |-> "find"], t |-> <<>>]
    /\ gout = [pc |-> "off"]
    /\ req = <<>>
    /\ cache = <<>>
    /\ cacheEnabled = FALSE
    /\ redisConnected = FALSE
    /\ db = <<>>
    /\ cacheConfig = LoadConfig(<<>>)
    /\ invalidated = NoInvalidation
    /\ server = Serving

KeyInit ==
    /\ kin \in [t1 : KeyUserIds, t2 : KeyUserIds,
                q1 : KeyQuestions, q2 : KeyQuestions]
    /\ kin.t1 = kin.t2 \/ kin.q1 = kin.q2
    /\ kout = [via |-> "none", k1 |-> NoKey, k2 |-> NoKey]
    /\ KeyIdle

\* two direct calls of processQuery, up to the key of the cache lookup
KeyViaProcessQuery ==
    /\ kout.via = "none"
    /\ kout' = [via |-> "processQuery",
                k1 |-> processQueryKey(kin.t1, kin.q1),
                k2 |-> processQueryKey(kin.t2, kin.q2)]
    /\ UNCHANGED <<kin, gin, gout, req, cache, cacheEnabled, redisConnected, db,
                 cacheConfig, invalidated, server>>

\* two POST /query requests that pass validation
KeyViaRoute ==
    /\ kout.via = "none"
    /\ validationError(kin.q1, kin.t1, KeyUserName) = "none"
    /\ validationError(kin.q2, kin.t2, KeyUserName) = "none"
    /\ kout' = [via |-> "route",
                k1 |-> routeKey(kin.t1, kin.q1),
                k2 |-> routeKey(kin.t2, kin.q2)]
    /\ UNCHANGED <<kin, gin, gout, req, cache, cacheEnabled, redisConnected, db,
                 cacheConfig, invalidated, server>>

\* a POST /query request that validation rejects reaches no cache key
KeyRouteRejected ==
    /\ kout.via = "none"
    /\ \/ validationError(kin.q1, kin.t1, KeyUserName) # "none"
       \/ validationError(kin.q2, kin.t2, KeyUserName) # "none"
    /\ kout' = [kout EXCEPT !.via = "rejected"]
    /\ UNCHANGED <<kin, gin, gout, req, cache, cacheEnabled, redisConnected, db,
                 cacheConfig, invalidated, server>>

KeyNext == KeyViaProcessQuery \/ KeyViaRoute \/ KeyRouteRejected

KeySpec == KeyInit /\ [][KeyNext]_vars

\* C5: for every question q and tenant ids t1 # t2, the string hashed for
\* (t1, q) differs from the string hashed for (t2, q).
C5_KeysDifferAcrossTenants ==
    (kout.via = "processQuery" /\ kin.t1 # kin.t2 /\ kin.q1 = kin.q2)
        => kout.k1.hash.digestOf # kout.k2.hash.digestOf

C8_FoodKeysEqual_Original ==
    (kout.via \in {"processQuery", "route"} /\ kin.t1 = kin.t2
        /\ kin.q1 = FoodQuestionRaw /\ kin.q2 = FoodQuestionPlain)
        => kout.k1 = kout.k2

\* C8 amended: for the same tenant, the key POST /query uses for
\* "  How Much did I Spend  on Food?" equals the key it uses for
\* "how much did i spend on food?" (question mark kept) and differs from
\* the key of "how much did i spend on food".
C8_FoodKeysEqual_Amended ==
    (kout.via = "route" /\ kin.t1 = kin.t2 /\ kin.q1 = FoodQuestionRaw)
        => /\ kin.q2 = FoodQuestionMarked => kout.k1 = kout.k2
           /\ kin.q2 = FoodQuestionPlain => kout.k1 # kout.k2

C8_Witness ==
    /\ kout.via = "route"
    /\ kin.t1 = kin.t2
    /\ kin.q1 = FoodQuestionRaw
    /\ kin.q2 = FoodQuestionMarked
    /\ kout.k1 = kout.k2
    /\ kout.k1 # NoKey

(***************************************************************************)
(* langchain/queryChain.js: the structured query, the guard, the executor  *)
(***************************************************************************)
\* JavaScript truthiness of a string value
Truthy(v) == v # <<>>


\* { $match: { user_id: userId } }
UserMatchStage(userId) == ("$match" :> ("user_id" :> userId))

\* the guard that sets the filter to { user_id } instead of merging, and
\* the pipeline to the match stage alone
scopeToUser_Replaces(queryDef, userId) ==
    IF queryDef["operation"] = "aggregate" /\ "pipeline" \in DOMAIN queryDef
    THEN [queryDef EXCEPT !["pipeline"] = <<UserMatchStage(userId)>>]
    ELSE IF queryDef["operation"] \in {"find", "findOne"}
    THEN SetKey(queryDef, "query", ("user_id" :> userId))
    ELSE queryDef

\* the guard without the hasUserMatch and hasUserId tests: it prepends the
\* match stage, or sets user_id, on every pass
scopeToUser_AlwaysInjects(queryDef, userId) ==
    IF queryDef["operation"] = "aggregate" /\ "pipeline" \in DOMAIN queryDef
    THEN [queryDef EXCEPT
             !["pipeline"] = <<UserMatchStage(userId)>> \o @]
    ELSE IF queryDef["operation"] \in {"find", "findOne"}
    THEN SetKey(queryDef, "query",
                SetKey(IF "query" \in DOMAIN queryDef
                       THEN queryDef["query"] ELSE <<>>,
                       "user_id", userId))
    ELSE queryDef

\* injectUserId past the users exemption: the aggregate branch and the
\* find / findOne branch
scopeToUser(queryDef, userId) ==
    IF queryDef["operation"] = "aggregate" /\ "pipeline" \in DOMAIN queryDef
    THEN LET pipeline == queryDef["pipeline"]
             hasUserMatch ==
                 /\ Len(pipeline) > 0
                 /\ "$match" \in DOMAIN pipeline[1]
                 /\ "user_id" \in DOMAIN pipeline[1]["$match"]
                 /\ Truthy(pipeline[1]["$match"]["user_id"])
         IN  IF ~hasUserMatch
             THEN [queryDef EXCEPT
                      !["pipeline"] = <<UserMatchStage(userId)>> \o pipeline]
             ELSE queryDef
    ELSE IF queryDef["operation"] \in {"find", "findOne"}
    THEN LET hasQuery == "query" \in DOMAIN queryDef
             query == IF hasQuery THEN queryDef["query"] ELSE <<>>
             hasUserId == /\ hasQuery
                          /\ "user_id" \in DOMAIN query
                          /\ Truthy(query["user_id"])
         IN  IF ~hasUserId
             THEN SetKey(queryDef, "query", SetKey(query, "user_id", userId))
             ELSE queryDef
    ELSE queryDef

\* injectUserId without the users exemption
injectUserId_NoUsersSkip(queryDef, userId) == scopeToUser(queryDef, userId)

injectUserId(queryDef, userId) ==
    IF queryDef["collection"] = "users"
    THEN queryDef
    ELSE scopeToUser(queryDef, userId)

allowedCollections ==
    {"users", "bank_transactions", "mutual_fund_holdings", "equity_holdings"}

\* the collections whose documents carry user_id
TenantCollections ==
    {"bank_transactions", "mutual_fund_holdings", "equity_holdings"}

\* MongoDB: a document matches a filter of equalities when it has every
\* field of the filter with the filter's value
Matches(doc, filter) ==
    \A f \in DOMAIN filter : f \in DOMAIN doc /\ doc[f] = filter[f]

\* MongoDB: an inclusion projection keeps _id and the listed fields
Project(doc, q) ==
    IF "projection" \in DOMAIN q
    THEN [k \in DOMAIN doc \cap ({"_id"} \cup DOMAIN q["projection"]) |-> doc[k]]
    ELSE doc

ProjectAll(docs, q) == [i \in 1..Len(docs) |-> Project(docs[i], q)]

\* MongoDB: one aggregation stage applied to the documents so far
ApplyStage(docs, stage) ==
    IF "$match" \in DOMAIN stage
    THEN SelectSeq(docs, LAMBDA d : Matches(d, stage["$match"]))
    ELSE SubSeq(docs, 1, IF Len(docs) < stage["$limit"]
                         THEN Len(docs) ELSE stage["$limit"])

RECURSIVE Aggregate(_, _)
Aggregate(docs, pipeline) ==
    IF pipeline = <<>> THEN docs
    ELSE Aggregate(ApplyStage(docs, Head(pipeline)), Tail(pipeline))

\* MongoDB: the $out stage, which replaces the named collection with the
\* documents that reach it
OutStage(target) == ("$out" :> target)

IsOut(stage) == "$out" \in DOMAIN stage

\* MongoDB: col.aggregate(pipeline).toArray(). A $out stage anywhere but
\* last is refused by the server; a last $out stage writes the documents
\* into its target collection and the cursor is empty
RunAggregate(store, collection, pipeline) ==
    LET n == Len(pipeline)
    IN  IF \E i \in 1..(n - 1) : IsOut(pipeline[i])
        THEN [error |-> "$out can only be the final stage in the pipeline",
              rows |-> <<>>, read |-> FALSE, store |-> store]
        ELSE IF n > 0 /\ IsOut(pipeline[n])
        THEN [error |-> "none", rows |-> <<>>, read |-> TRUE,
              store |-> SetKey(store, pipeline[n]["$out"],
                               Aggregate(store[collection],
                                         SubSeq(pipeline, 1, n - 1)))]
        ELSE [error |-> "none", rows |-> Aggregate(store[collection], pipeline),
              read |-> TRUE, store |-> store]

\* executeQuery's switch on the operation, on the collection handle
\* db.collection(collection); a collection the store does not hold is empty
RunOperation(queryDef, store, operation) ==
    LET collection == queryDef["collection"]
        query == IF "query" \in DOMAIN queryDef THEN queryDef["query"] ELSE <<>>
        pipeline == IF "pipeline" \in DOMAIN queryDef
                    THEN queryDef["pipeline"] ELSE <<>>
        held == IF collection \in DOMAIN store
                THEN store ELSE SetKey(store, collection, <<>>)
        found == SelectSeq(held[collection], LAMBDA d : Matches(d, query))
    IN  CASE operation = "find" ->
                 [error |-> "none", rows |-> ProjectAll(found, queryDef),
                  read |-> TRUE, store |-> store]
          [] operation = "findOne" ->
                 [error |-> "none",
                  rows |-> ProjectAll(SubSeq(found, 1,
                               IF found = <<>> THEN 0 ELSE 1), queryDef),
                  read |-> TRUE, store |-> store]
          [] operation = "aggregate" ->
                 RunAggregate(held, collection, pipeline)
          [] OTHER ->
                 [error |-> "Unsupported operation", rows |-> <<>>,
                  read |-> FALSE, store |-> store]

\* executeQuery without the allow-list check of its first statement
executeQuery_NoAllowList(queryDef, store) ==
    RunOperation(queryDef, store, queryDef["operation"])

\* executeQuery whose switch falls back to find in the default case
executeQuery_DefaultFind(queryDef, store) ==
    IF queryDef["collection"] \notin allowedCollections
    THEN [error |-> "Invalid collection", rows |-> <<>>,
          read |-> FALSE, store |-> store]
    ELSE RunOperation(queryDef, store,
                      IF queryDef["operation"] \in {"find", "findOne", "aggregate"}
                      THEN queryDef["operation"] ELSE "find")

\* executeQuery: the rows it returns (findOne: the one document, or none
\* for null) or the message of the error it throws, whether it read the
\* store, and the store after the call
executeQuery(queryDef, store) ==
    IF queryDef["collection"] \notin allowedCollections
    THEN [error |-> "Invalid collection", rows |-> <<>>,
          read |-> FALSE, store |-> store]
    ELSE RunOperation(queryDef, store, queryDef["operation"])

(***************************************************************************)
(* The documents of the store: three users, a and b as seed.js creates     *)
(* them and A, whose id differs from a's in letter case only               *)
(***************************************************************************)
UserA == <<"a">>
UserB == <<"b">>
UserUpperA == <<"A">>

Doc(id, userId, category) ==
    [_id |-> id, user_id |-> userId, category |-> category]

Holding(id, userId) == [_id |-> id, user_id |-> userId]

FixtureStore ==
    [users |-> <<[_id |-> UserA, name |-> "Rahul Sharma"],
                 [_id |-> UserB, name |-> "Priya Patel"],
                 [_id |-> UserUpperA, name |-> "Asha Rao"]>>,
     bank_transactions |-> <<Doc(1, UserA, "food"), Doc(2, UserB, "food"),
                             Doc(3, UserA, "travel"), Doc(4, UserUpperA, "food")>>,
     mutual_fund_holdings |-> <<Holding(5, UserA), Holding(6, UserB)>>,
     equity_holdings |-> <<Holding(7, UserB), Holding(8, UserA)>>]

\* the owner of document id of a tenant-owned collection
RowsOwnedBy(store, collection, userId) ==
    {store[collection][i]["_id"] :
        i \in {j \in 1..Len(store[collection]) :
                  store[collection][j]["user_id"] = userId}}

(***************************************************************************)
(* GuardSpec: injectUserId and executeQuery on every query the parse of    *)
(* the translation's answer can yield, within the bounds                   *)
(***************************************************************************)
GuardUserIds == {UserA, UserB}
Collections == allowedCollections \cup {"audit_log"}
Operations == {"find", "findOne", "aggregate", "deleteMany"}

\* functions from a subset of keys to values
PartialFns(keys, vals) == UNION {[d -> vals] : d \in SUBSET keys}

\* filters: user_id absent, empty, the caller's or another user's; category
Filters ==
    {uf @@ cf : uf \in PartialFns({"user_id"}, GuardUserIds \cup {<<>>}),
                cf \in PartialFns({"category"}, {"food"})}

Stages ==
    {("$match" :> f) : f \in Filters}
      \cup {("$limit" :> 1), OutStage("bank_transactions")}

Pipelines == UNION {[1..n -> Stages] : n \in 0..MaxStages}

Projections == {("category" :> 1)}

\* the parsed object: collection and operation, and each of query,
\* projection and pipeline present or not
Queries ==
    {  [collection |-> c, operation |-> o]
         @@ qf @@ pj @@ pl :
       c \in Collections, o \in Operations,
       qf \in PartialFns({"query"}, Filters),
       pj \in PartialFns({"projection"}, Projections),
       pl \in PartialFns({"pipeline"}, Pipelines) }

NoResult == [error |-> "none", rows |-> <<>>, read |-> FALSE]

GuardIdle ==
    /\ kin = [t1 |-> <<>>, t2 |-> <<>>, q1 |-> <<>>, q2 |-> <<>>]
    /\ kout = [via |-> "off", k1 |-> NoKey, k2 |-> NoKey]
    /\ req = <<>>
    /\ cache = <<>>
    /\ cacheEnabled = FALSE
    /\ redisConnected = FALSE
    /\ cacheConfig = LoadConfig(<<>>)
    /\ invalidated = NoInvalidation
    /\ server = Serving

GuardInit ==
    /\ gin \in [q : Queries, t : GuardUserIds]
    /\ gout = [pc |-> "parsed", q |-> gin.q, res |-> NoResult]
    /\ db = FixtureStore
    /\ GuardIdle

\* mongoQuery = injectUserId(mongoQuery, userId)
GuardInject ==
    /\ gout.pc = "parsed"
    /\ gout' = [gout EXCEPT !.pc = "guarded", !.q = injectUserId(gin.q, gin.t)]
    /\ UNCHANGED <<kin, kout, gin, req, cache, cacheEnabled, redisConnected, db,
                 cacheConfig, invalidated, server>>

\* queryResult = await executeQuery(mongoQuery)
GuardExecute ==
    /\ gout.pc = "guarded"
    /\ LET res == executeQuery(gout.q, db)
       IN  /\ gout' = [gout EXCEPT !.pc = "executed",
                                   !.res = [error |-> res.error,
                                            rows |-> res.rows,
                                            read |-> res.read]]
           /\ db' = res.store
    /\ UNCHANGED <<kin, kout, gin, req, cache, cacheEnabled, redisConnected,
                 cacheConfig, invalidated, server>>

GuardNext == GuardInject \/ GuardExecute

GuardSpec == GuardInit /\ [][GuardNext]_vars

(***************************************************************************)
(* TwiceSpec: the guard applied to its own output, with the same userId    *)
(***************************************************************************)
\* injectUserId(injectUserId(queryDef, userId), userId); once keeps what the
\* first pass returned
GuardInjectAgain ==
    /\ gout.pc = "guarded"
    /\ gout' = [pc |-> "again", q |-> injectUserId(gout.q, gin.t),
                res |-> gout.res, once |-> gout.q]
    /\ UNCHANGED <<kin, kout, gin, req, cache, cacheEnabled, redisConnected, db,
                 cacheConfig, invalidated, server>>

TwiceNext == GuardInject \/ GuardInjectAgain

TwiceSpec == GuardInit /\ [][TwiceNext]_vars

\* C1: executing the guard's output on a tenant-owned collection returns
\* only rows whose user_id is the requesting userId.
C1_OnlyOwnRowsReturned ==
    (gout.pc = "executed" /\ gin.q["collection"] \in TenantCollections)
        => \A i \in 1..Len(gout.res.rows) :
              gout.res.rows[i]["_id"]
                  \in RowsOwnedBy(db, gin.q["collection"], gin.t)

\* C2: after the guard, the filter of a find / findOne query on a
\* tenant-owned collection has user_id equal to the requesting userId.
C2_FilterCarriesRequester ==
    (gout.pc # "parsed" /\ gin.q["collection"] \in TenantCollections
        /\ gin.q["operation"] \in {"find", "findOne"})
        => /\ "query" \in DOMAIN gout.q
           /\ "user_id" \in DOMAIN gout.q["query"]
           /\ gout.q["query"]["user_id"] = gin.t

IsRequesterMatch(stage, userId) ==
    /\ "$match" \in DOMAIN stage
    /\ "user_id" \in DOMAIN stage["$match"]
    /\ stage["$match"]["user_id"] = userId

\* C3: after the guard, the pipeline of an aggregate query on a
\* tenant-owned collection starts with a match of user_id against the
\* requesting userId; it is prepended when the incoming first stage is not
\* such a match.
C3_PipelineStartsWithRequesterMatch ==
    (gout.pc # "parsed" /\ gin.q["collection"] \in TenantCollections
        /\ gin.q["operation"] = "aggregate" /\ "pipeline" \in DOMAIN gin.q)
        => LET before == gin.q["pipeline"]
               after == gout.q["pipeline"]
           IN  /\ after # <<>>
               /\ IsRequesterMatch(after[1], gin.t)
               /\ (before = <<>> \/ ~IsRequesterMatch(before[1], gin.t))
                     => after = <<UserMatchStage(gin.t)>> \o before

\* C4: the guard returns a query on users as it received it, whatever the
\* operation, filter, projection, pipeline and userId.
C4_UsersQueryUnchanged ==
    (gout.pc # "parsed" /\ gin.q["collection"] = "users") => gout.q = gin.q

C4_Witness ==
    /\ gout.pc = "guarded"
    /\ gin.q["collection"] = "users"
    /\ gin.q["operation"] = "find"
    /\ "query" \notin DOMAIN gin.q
    /\ gout.q = gin.q

(***************************************************************************)
(* cacheService.js: getCachedResponse and cacheResponse                    *)
(***************************************************************************)
\* A Redis entry: the stored string parses as JSON to value, or does not.
\* ttl: the seconds the entry has left
Entry(value, ttl) == [parsable |-> TRUE, value |-> value, ttl |-> ttl]

\* getCachedResponse with the try / catch left out: an error of
\* redisClient.get or JSON.parse leaves the function
getCachedResponse_NoCatch(question, store, enabled, connected, getThrows) ==
    LET key == generateCacheKey(question)
    IN  IF ~enabled \/ ~connected
        THEN [error |-> "none", value |-> <<>>]
        ELSE IF getThrows
        THEN [error |-> "Cache get error", value |-> <<>>]
        ELSE IF key \notin DOMAIN store
        THEN [error |-> "none", value |-> <<>>]
        ELSE IF ~store[key].parsable
        THEN [error |-> "Cache get error", value |-> <<>>]
        ELSE [error |-> "none", value |-> <<store[key].value>>]

\* getCachedResponse: value is <<response>>, or <<>> for null; error is
\* the error that leaves the function ("none": it returns)
\* getCachedResponse that answers with another key's entry when the key
\* holds none
getCachedResponse_Fallback(question, store, enabled, connected, getThrows) ==
    LET key == generateCacheKey(question)
        held == {k \in DOMAIN store : store[k].parsable}
    IN  IF ~enabled \/ ~connected \/ getThrows \/ held = {}
        THEN [error |-> "none", value |-> <<>>]
        ELSE IF key \in held
        THEN [error |-> "none", value |-> <<store[key].value>>]
        ELSE [error |-> "none",
              value |-> <<store[CHOOSE k \in held : TRUE].value>>]

getCachedResponse(question, store, enabled, connected, getThrows) ==
    LET key == generateCacheKey(question)
    IN  IF ~enabled \/ ~connected
        THEN [error |-> "none", value |-> <<>>]
        ELSE IF getThrows
        THEN [error |-> "none", value |-> <<>>]
        ELSE IF key \notin DOMAIN store
        THEN [error |-> "none", value |-> <<>>]
        ELSE IF ~store[key].parsable
        THEN [error |-> "none", value |-> <<>>]
        ELSE [error |-> "none", value |-> <<store[key].value>>]

\* cacheResponse: the store after the call, and the error that leaves the
\* function ("none": it returns)
\* cacheResponse that writes with SET, an entry that never expires (-1)
cacheResponse_NoExpiry(question, response, store, enabled, connected, ttl, setThrows) ==
    LET key == generateCacheKey(question)
    IN  IF ~enabled \/ ~connected \/ setThrows
        THEN [error |-> "none", store |-> store]
        ELSE [error |-> "none",
              store |-> SetKey(store, key, Entry(response, -1))]

\* SETEX refuses a ttl that is not positive, which the catch swallows
cacheResponse(question, response, store, enabled, connected, ttl, setThrows) ==
    LET key == generateCacheKey(question)
    IN  IF ~enabled \/ ~connected
        THEN [error |-> "none", store |-> store]
        ELSE IF setThrows \/ ttl <= 0
        THEN [error |-> "none", store |-> store]
        ELSE [error |-> "none",
              store |-> SetKey(store, key, Entry(response, ttl))]

(***************************************************************************)
(* Spec: processQuery invocations running concurrently against one cache   *)
(* and one store                                                           *)
(***************************************************************************)
Requests == {"r1", "r2"}
\* the requests are numbered in the order of their arrival
RequestOrder == <<"r1", "r2", "r3">>
Before(r1, r2) ==
    \E i, j \in DOMAIN RequestOrder :
        i < j /\ RequestOrder[i] = r1 /\ RequestOrder[j] = r2
UserIds == {UserA, UserUpperA, UserB}
Questions == {<<"q">>, <<"p">>}
Answers == {"answer1", "answer2"}

UserNameOf(userId) ==
    CHOOSE n \in {"Rahul Sharma", "Priya Patel", "Asha Rao"} :
        \E i \in 1..Len(FixtureStore.users) :
            /\ FixtureStore.users[i]["_id"] = userId
            /\ FixtureStore.users[i]["name"] = n

\* what the parse of the translation's answer yields in Spec
FoodFilter == ("category" :> "food")
\* a null where the pipeline should hold a stage
NullStage == ("null" :> TRUE)
TranslatedQueries ==
    {[collection |-> "bank_transactions", operation |-> "find",
      query |-> FoodFilter],
     [collection |-> "bank_transactions", operation |-> "find",
      query |-> FoodFilter @@ ("user_id" :> UserA)],
     [collection |-> "bank_transactions", operation |-> "aggregate",
      pipeline |-> <<("$match" :> FoodFilter)>>],
     [collection |-> "users", operation |-> "find"],
     [collection |-> "audit_log", operation |-> "find"],
     [collection |-> "bank_transactions", operation |-> "deleteMany"],
     [collection |-> "bank_transactions", operation |-> "aggregate",
      pipeline |-> <<NullStage>>]}

\* the bodies POST /query receives: the ones the frontend sends for a
\* selected user, and one for each check of the handler
UserNameSent == <<"n">>

Body(question, userId) ==
    [question |-> JsString(question), userId |-> JsString(userId),
     userName |-> JsString(UserNameSent)]

Without(body, k) == [x \in DOMAIN body \ {k} |-> body[x]]

LongQuestion == [i \in 1..(MaxQuestionLength + 1) |-> "a"]

ValidBodies == {Body(q, u) : q \in Questions, u \in UserIds}

InvalidBodies ==
    {Without(Body(<<"q">>, UserA), "question"),
     Body(<<>>, UserA),
     SetKey(Body(<<"q">>, UserA), "question", JsNumber(7)),
     Body(<<" ">>, UserA),
     Body(LongQuestion, UserA),
     Without(Body(<<"q">>, UserA), "userId"),
     Without(Body(<<"q">>, UserA), "userName")}

Bodies == ValidBodies \cup InvalidBodies

NoQuery == [collection |-> "none", operation |-> "none"]

NoResponse ==
    [question |-> <<>>, user |-> [id |-> <<>>, name |-> "none"],
     answer |-> "none", queryExecuted |-> NoQuery, dataRetrieved |-> <<>>,
     fromCache |-> FALSE]

IdleRequest ==
    [pc |-> "idle", userId |-> <<>>, question |-> <<>>,
     parsed |-> NoQuery, mongoQuery |-> NoQuery, executed |-> NoQuery,
     queryResult |-> <<>>, answer |-> "none", response |-> NoResponse,
     error |-> "none", trace |-> <<>>, body |-> <<>>, http |-> NoHttp,
     llmText |-> <<>>]

SpecIdle ==
    /\ kin = [t1 |-> <<>>, t2 |-> <<>>, q1 |-> <<>>, q2 |-> <<>>]
    /\ kout = [via |-> "off", k1 |-> NoKey, k2 |-> NoKey]
    /\ gin = [q |-> NoQuery, t |-> <<>>]
    /\ gout = [pc |-> "off"]
    /\ invalidated = NoInvalidation

Init ==
    /\ req = [r \in Requests |-> IdleRequest]
    /\ cache = <<>>
    /\ cacheEnabled \in BOOLEAN
    /\ redisConnected \in BOOLEAN
    /\ db = FixtureStore
    /\ cacheConfig = LoadConfig(<<>>)
    /\ server = Serving
    /\ SpecIdle

others == <<kin, kout, gin, gout, cacheConfig, invalidated, server>>

\* the promise of the invocation rejects with message
Reject(r, step, message) ==
    req' = [req EXCEPT ![r].pc = "failed", ![r].error = message,
                       ![r].trace = Append(@, step),
                       ![r].http = ServerError(message)]

\* POST /query arrives with one of bodies: a 400 response, or
\* processQuery(question.trim(), userId, userName) is called
ReceiveFrom(r, bodies) ==
    /\ req[r].pc = "idle"
    /\ \A earlier \in DOMAIN req :
          Before(earlier, r) => req[earlier].pc # "idle"
    /\ \E body \in bodies :
          LET message == validateBody(body)
          IN  IF message # "none"
              THEN req' = [req EXCEPT ![r].pc = "rejected",
                                      ![r].body = body,
                                      ![r].http = BadRequest(message)]
              ELSE req' = [req EXCEPT
                      ![r].pc = "lookup",
                      ![r].body = body,
                      ![r].userId = body["userId"].value,
                      ![r].question = trim(body["question"].value)]
    /\ UNCHANGED <<cache, cacheEnabled, redisConnected, db, others>>

Receive(r) == ReceiveFrom(r, Bodies)

\* const cached = await cacheService.getCachedResponse(cacheKey);
\* if (cached) return { ...cached, fromCache: true }
\* faults: whether the GET can throw
CacheLookupIf(r, faults) ==
    /\ req[r].pc = "lookup"
    /\ \E getThrows \in faults :
          LET got == getCachedResponse(
                         cacheKeyString(req[r].userId, req[r].question),
                         cache, cacheEnabled, redisConnected, getThrows)
              hit == SetKey(got.value[1], "fromCache", TRUE)
          IN  IF got.error # "none"
              THEN Reject(r, "cache lookup", got.error)
              ELSE IF got.value # <<>>
              THEN req' = [req EXCEPT
                      ![r].pc = "done",
                      ![r].response = hit,
                      ![r].trace = @ \o <<"cache lookup", "return">>,
                      ![r].http = Ok(hit)]
              ELSE req' = [req EXCEPT
                      ![r].pc = "translate",
                      ![r].trace = Append(@, "cache lookup")]
    /\ UNCHANGED <<cache, cacheEnabled, redisConnected, db, others>>

\* processQuery without the return of its hit branch
CacheLookup_FallsThrough(r) ==
    /\ req[r].pc = "lookup"
    /\ \E getThrows \in BOOLEAN :
          LET got == getCachedResponse(
                         cacheKeyString(req[r].userId, req[r].question),
                         cache, cacheEnabled, redisConnected, getThrows)
          IN  IF got.value # <<>>
              THEN req' = [req EXCEPT
                      ![r].pc = "translate",
                      ![r].response = SetKey(got.value[1], "fromCache", TRUE),
                      ![r].trace = Append(@, "cache lookup")]
              ELSE req' = [req EXCEPT
                      ![r].pc = "translate",
                      ![r].trace = Append(@, "cache lookup")]
    /\ UNCHANGED <<cache, cacheEnabled, redisConnected, db, others>>

\* two requests have the same key
SameKey(r1, r2) ==
    cacheKeyString(req[r1].userId, req[r1].question)
        = cacheKeyString(req[r2].userId, req[r2].question)

InPipeline(r) ==
    req[r].pc \in {"translate", "isolate", "execute", "synthesize", "store"}

CacheLookup(r) == CacheLookupIf(r, BOOLEAN)

(***************************************************************************)
(* The text the model answers with, as a sequence of pieces: the fence     *)
(* mark, a word, a line break, a blank, and the JSON text of a query       *)
(***************************************************************************)
Tick == [kind |-> "fence"]
Word(w) == [kind |-> "word", text |-> w]
NL == [kind |-> "newline"]
Blank == [kind |-> "blank"]
JsonText(q) == [kind |-> "json", value |-> q]

IsWhite(piece) == piece.kind \in {"newline", "blank"}

\* the first replace of parseQueryResponse: every fence mark followed by
\* json, and the line break after it if there is one, is removed
RECURSIVE StripJsonFences(_)
StripJsonFences(text) ==
    IF text = <<>> THEN <<>>
    ELSE IF /\ Len(text) >= 2
            /\ text[1].kind = "fence"
            /\ text[2].kind = "word"
            /\ text[2].text = "json"
         THEN IF Len(text) >= 3 /\ text[3].kind = "newline"
              THEN StripJsonFences(SubSeq(text, 4, Len(text)))
              ELSE StripJsonFences(SubSeq(text, 3, Len(text)))
    ELSE <<Head(text)>> \o StripJsonFences(Tail(text))

\* the second replace: every fence mark, and the line break after it if
\* there is one, is removed
RECURSIVE StripFences(_)
StripFences(text) ==
    IF text = <<>> THEN <<>>
    ELSE IF text[1].kind = "fence"
         THEN IF Len(text) >= 2 /\ text[2].kind = "newline"
              THEN StripFences(SubSeq(text, 3, Len(text)))
              ELSE StripFences(SubSeq(text, 2, Len(text)))
    ELSE <<Head(text)>> \o StripFences(Tail(text))

\* content.trim()
RECURSIVE TrimText(_)
TrimText(text) ==
    IF text = <<>> THEN <<>>
    ELSE IF IsWhite(text[1]) THEN TrimText(Tail(text))
    ELSE IF IsWhite(text[Len(text)])
         THEN TrimText(SubSeq(text, 1, Len(text) - 1))
    ELSE text

\* JSON.parse(content): the value when content is one JSON text, the
\* thrown error caught and replaced otherwise
JsonParse(content) ==
    IF Len(content) = 1 /\ content[1].kind = "json"
    THEN [error |-> "none", value |-> content[1].value]
    ELSE [error |-> "Failed to parse query from LLM response",
          value |-> <<>>]

\* parseQueryResponse that parses the content as it came
parseQueryResponse_NoStrip(text) == JsonParse(TrimText(text))

parseQueryResponse(text) ==
    JsonParse(TrimText(StripFences(StripJsonFences(text))))

\* the forms of an answer that carries the query q
Plain(q) == <<JsonText(q)>>
FencedJson(q) == <<Tick, Word("json"), NL, JsonText(q), NL, Tick>>
FencedBare(q) == <<Tick, NL, JsonText(q), NL, Tick>>
Padded(q) == <<NL, JsonText(q), Blank, NL>>

\* answers that are no JSON text: an explanation before the query, a
\* fence with another language tag, nothing at all
Explained(q) == <<Word("Here"), Blank, JsonText(q)>>
FencedOther(q) == <<Tick, Word("javascript"), NL, JsonText(q), NL, Tick>>
UnparsableOutputs ==
    {<<>>} \cup {Explained(q) : q \in TranslatedQueries}

SpecOutputs ==
    {Plain(q) : q \in TranslatedQueries} \cup {<<>>}

\* const queryResponse = await llm.invoke(queryPrompt);
\* let mongoQuery = parseQueryResponse(queryResponse)
\* outputs: what the model may answer with
TranslateTo(r, outputs) ==
    /\ req[r].pc = "translate"
    /\ \/ Reject(r, "translation", "LLM call failed")
       \/ \E text \in outputs :
             LET parsed == parseQueryResponse(text)
             IN  IF parsed.error # "none"
                 THEN req' = [req EXCEPT
                         ![r].pc = "failed",
                         ![r].error = parsed.error,
                         ![r].llmText = <<text>>,
                         ![r].trace = Append(@, "translation"),
                         ![r].http = ServerError(parsed.error)]
                 ELSE req' = [req EXCEPT
                         ![r].pc = "isolate",
                         ![r].llmText = <<text>>,
                         ![r].parsed = parsed.value,
                         ![r].mongoQuery = parsed.value,
                         ![r].trace = Append(@, "translation")]
    /\ UNCHANGED <<cache, cacheEnabled, redisConnected, db, others>>

Translate(r) == TranslateTo(r, SpecOutputs)

\* injectUserId reads pipeline[0].$match: a TypeError when pipeline[0] is
\* null
injectUserIdThrows(queryDef) ==
    /\ queryDef["collection"] # "users"
    /\ queryDef["operation"] = "aggregate"
    /\ "pipeline" \in DOMAIN queryDef
    /\ Len(queryDef["pipeline"]) > 0
    /\ queryDef["pipeline"][1] = NullStage

\* the pipeline with the guard left out
Isolate_Skipped(r) ==
    /\ req[r].pc = "isolate"
    /\ req' = [req EXCEPT ![r].pc = "execute"]
    /\ UNCHANGED <<cache, cacheEnabled, redisConnected, db, others>>

\* mongoQuery = injectUserId(mongoQuery, userId)
Isolate(r) ==
    /\ req[r].pc = "isolate"
    /\ IF injectUserIdThrows(req[r].mongoQuery)
       THEN Reject(r, "guard",
                   "Cannot read properties of null (reading '$match')")
       ELSE req' = [req EXCEPT
              ![r].pc = "execute",
              ![r].mongoQuery = injectUserId(req[r].mongoQuery, req[r].userId),
              ![r].trace = Append(@, "guard")]
    /\ UNCHANGED <<cache, cacheEnabled, redisConnected, db, others>>

\* the pipeline that goes on with no rows when executeQuery throws
Execute_SwallowsError(r) ==
    /\ req[r].pc = "execute"
    /\ LET res == executeQuery(req[r].mongoQuery, db)
       IN  /\ req' = [req EXCEPT ![r].pc = "synthesize",
                                 ![r].executed = req[r].mongoQuery,
                                 ![r].queryResult = res.rows,
                                 ![r].trace = Append(@, "store execution")]
           /\ db' = res.store
    /\ UNCHANGED <<cache, cacheEnabled, redisConnected, others>>

\* const queryResult = await executeQuery(mongoQuery)
Execute(r) ==
    /\ req[r].pc = "execute"
    /\ LET res == executeQuery(req[r].mongoQuery, db)
       IN  \/ /\ res.error = "none"
              /\ Reject(r, "store execution", "Store call failed")
              /\ db' = db
           \/ /\ res.error # "none"
              /\ Reject(r, "store execution", res.error)
              /\ db' = db
           \/ /\ res.error = "none"
              /\ req' = [req EXCEPT ![r].pc = "synthesize",
                                    ![r].executed = req[r].mongoQuery,
                                    ![r].queryResult = res.rows,
                                    ![r].trace = Append(@, "store execution")]
              /\ db' = res.store
    /\ UNCHANGED <<cache, cacheEnabled, redisConnected, others>>

\* const answerResponse = await llm.invoke(responsePrompt); the answer is
\* whatever the model writes
Synthesize(r) ==
    /\ req[r].pc = "synthesize"
    /\ \/ Reject(r, "synthesis", "LLM call failed")
       \/ \E a \in Answers :
             req' = [req EXCEPT ![r].pc = "store", ![r].answer = a,
                                ![r].trace = Append(@, "synthesis")]
    /\ UNCHANGED <<cache, cacheEnabled, redisConnected, db, others>>

\* the object processNaturalLanguageQuery returns
Result(r) ==
    [question |-> req[r].question,
     user |-> [id |-> req[r].userId, name |-> UserNameOf(req[r].userId)],
     answer |-> req[r].answer,
     queryExecuted |-> req[r].mongoQuery,
     dataRetrieved |-> req[r].queryResult]

\* await cacheService.cacheResponse(cacheKey, result);
\* return { ...result, fromCache: false }
\* faults: whether the SETEX can throw
CacheStoreIf(r, faults) ==
    /\ req[r].pc = "store"
    /\ \E setThrows \in faults :
          LET put == cacheResponse(
                         cacheKeyString(req[r].userId, req[r].question),
                         Result(r), cache, cacheEnabled, redisConnected,
                         cacheConfig.ttl, setThrows)
              miss == SetKey(Result(r), "fromCache", FALSE)
          IN  /\ cache' = put.store
              /\ IF put.error # "none"
                 THEN Reject(r, "cache store", put.error)
                 ELSE req' = [req EXCEPT
                         ![r].pc = "done",
                         ![r].response = miss,
                         ![r].trace = @ \o <<"cache store", "return">>,
                         ![r].http = Ok(miss)]
    /\ UNCHANGED <<cacheEnabled, redisConnected, db, others>>

CacheStore(r) == CacheStoreIf(r, BOOLEAN)

\* the connection to Redis is lost
RedisDown ==
    /\ redisConnected
    /\ redisConnected' = FALSE
    /\ UNCHANGED <<req, cache, cacheEnabled, db, others>>

\* the connection to Redis is ready (again)
RedisUp ==
    /\ ~redisConnected
    /\ redisConnected' = TRUE
    /\ UNCHANGED <<req, cache, cacheEnabled, db, others>>

\* another client of the store overwrites an entry with text that is not
\* JSON
EntryCorrupted ==
    /\ \E k \in DOMAIN cache :
          /\ cache[k].parsable
          /\ cache' = [cache EXCEPT ![k].parsable = FALSE]
    /\ UNCHANGED <<req, cacheEnabled, redisConnected, db, others>>

Next ==
    \/ \E r \in Requests :
          \/ Receive(r)
          \/ CacheLookup(r)
          \/ Translate(r)
          \/ Isolate(r)
          \/ Execute(r)
          \/ Synthesize(r)
          \/ CacheStore(r)
    \/ RedisDown
    \/ RedisUp
    \/ EntryCorrupted

Spec == Init /\ [][Next]_vars

(***************************************************************************)
(* RepeatSpec: three requests of the same user with the same question,     *)
(* the third one sent after the first one was answered; caching is on,     *)
(* Redis stays connected and its commands do not throw                     *)
(***************************************************************************)
RepeatRequests == {"r1", "r2", "r3"}
FirstCall == "r1"
RepeatedCall == "r3"

RepeatBodies == {Body(<<"q">>, UserA)}

RepeatQueries ==
    {[collection |-> "bank_transactions", operation |-> "find",
      query |-> FoodFilter]}

RepeatOutputs == {Plain(q) : q \in RepeatQueries} \cup {<<>>}

RepeatInit ==
    /\ req = [r \in RepeatRequests |-> IdleRequest]
    /\ cache = <<>>
    /\ cacheEnabled = TRUE
    /\ redisConnected = TRUE
    /\ db = FixtureStore
    /\ cacheConfig = LoadConfig(<<>>)
    /\ server = Serving
    /\ SpecIdle

RepeatReceive(r) ==
    /\ r = RepeatedCall => req[FirstCall].pc = "done"
    /\ ReceiveFrom(r, RepeatBodies)

\* processQuery that waits while another request is working on its key
RepeatLookup_SingleFlight(r) ==
    /\ \A other \in DOMAIN req \ {r} :
          ~(InPipeline(other) /\ SameKey(r, other))
    /\ CacheLookupIf(r, {FALSE})

RepeatLookup(r) == CacheLookupIf(r, {FALSE})

RepeatTranslate(r) == TranslateTo(r, RepeatOutputs)

RepeatStore(r) == CacheStoreIf(r, {FALSE})

RepeatNext ==
    \E r \in RepeatRequests :
        \/ RepeatReceive(r)
        \/ RepeatLookup(r)
        \/ RepeatTranslate(r)
        \/ Isolate(r)
        \/ Execute(r)
        \/ Synthesize(r)
        \/ RepeatStore(r)

RepeatSpec == RepeatInit /\ [][RepeatNext]_vars

(***************************************************************************)
(* ParseSpec: one request, and every form of the model's answer            *)
(***************************************************************************)
ParseRequests == {"r1"}

ParseOutputs ==
    UNION {{Plain(q), FencedJson(q), FencedBare(q), Padded(q), FencedOther(q)} :
             q \in TranslatedQueries}
      \cup UnparsableOutputs

ParseInit ==
    /\ req = [r \in ParseRequests |-> IdleRequest]
    /\ cache = <<>>
    /\ cacheEnabled \in BOOLEAN
    /\ redisConnected \in BOOLEAN
    /\ db = FixtureStore
    /\ cacheConfig = LoadConfig(<<>>)
    /\ server = Serving
    /\ SpecIdle

ParseReceive(r) == ReceiveFrom(r, ValidBodies)

ParseTranslate(r) == TranslateTo(r, ParseOutputs)

ParseNext ==
    \E r \in ParseRequests :
        \/ ParseReceive(r)
        \/ CacheLookup(r)
        \/ ParseTranslate(r)
        \/ Isolate(r)
        \/ Execute(r)
        \/ Synthesize(r)
        \/ CacheStore(r)

ParseSpec == ParseInit /\ [][ParseNext]_vars

(***************************************************************************)
(* ExpirySpec: the cache over time.  Redis counts every entry's seconds    *)
(* down and drops it at zero, invalidateCache lists the keys of a pattern *)
(* and deletes them, and the TTL comes from CACHE_TTL.                     *)
(***************************************************************************)
ExpiryRequests == {"r1", "r2"}

\* values of CACHE_TTL: not set, a number, zero, not a number, negative
EnvTtls == {<<>>, <<"2">>, <<"0">>, <<"x">>, <<"-", "1">>}

ExpiryBodies == {Body(q, UserA) : q \in Questions}

ExpiryOutputs == RepeatOutputs

\* a glob of KEYS: a prefix followed by * or by one digest
AllKeys == [prefix |-> "query:", any |-> TRUE, hash |-> md5(<<>>)]
OneKey(key) == [prefix |-> key.prefix, any |-> FALSE, hash |-> key.hash]
OtherKeys == [prefix |-> "session:", any |-> TRUE, hash |-> md5(<<>>)]

Patterns ==
    {AllKeys, OtherKeys}
      \cup {OneKey(processQueryKey(UserA, q)) : q \in Questions}

MatchesPattern(pattern, key) ==
    /\ key.prefix = pattern.prefix
    /\ pattern.any \/ key.hash = pattern.hash

\* redisClient.keys(pattern)
MatchingKeys(pattern, store) ==
    {k \in DOMAIN store : MatchesPattern(pattern, k)}

\* redisClient.del(keys)
DeleteKeys(store, keys) == [k \in DOMAIN store \ keys |-> store[k]]

Returned(pattern, keys, count) ==
    [pc |-> "returned", pattern |-> pattern, keys |-> keys,
     error |-> "none", count |-> count]

ExpiryInit ==
    /\ req = [r \in ExpiryRequests |-> IdleRequest]
    /\ cache = <<>>
    /\ cacheEnabled = TRUE
    /\ redisConnected = TRUE
    /\ db = FixtureStore
    /\ cacheConfig \in {LoadConfig(env) : env \in EnvTtls}
    /\ server = Serving
    /\ SpecIdle

ExpiryReceive(r) == ReceiveFrom(r, ExpiryBodies)

ExpiryLookup(r) == CacheLookupIf(r, {FALSE})

ExpiryTranslate(r) == TranslateTo(r, ExpiryOutputs)

ExpiryStore(r) == CacheStoreIf(r, BOOLEAN)

Live(store) == {k \in DOMAIN store : store[k].ttl > 0}

Soonest(store) ==
    CHOOSE t \in {store[k].ttl : k \in Live(store)} :
        \A k \in Live(store) : t <= store[k].ttl

\* time passes, up to the second before the next expiry or up to it: Redis
\* drops what has no second left
Elapse ==
    /\ Live(cache) # {}
    /\ \E d \in {Soonest(cache) - 1, Soonest(cache)} \ {0} :
          cache' =
              [k \in {j \in DOMAIN cache :
                         cache[j].ttl <= 0 \/ cache[j].ttl > d} |->
                  IF cache[k].ttl > 0
                  THEN [cache[k] EXCEPT !.ttl = @ - d]
                  ELSE cache[k]]
    /\ UNCHANGED <<req, cacheEnabled, redisConnected, db, kin, kout, gin,
                   gout, cacheConfig, invalidated, server>>

\* invalidateCache up to its first await: the connection check and KEYS
InvalidateKeys ==
    /\ invalidated.pc \in {"idle", "returned"}
    /\ \E pattern \in Patterns, keysThrows \in BOOLEAN :
          invalidated' =
              IF ~redisConnected \/ keysThrows
              THEN Returned(pattern, {}, 0)
              ELSE [pc |-> "keys", pattern |-> pattern,
                    keys |-> MatchingKeys(pattern, cache),
                    error |-> "none", count |-> 0]
    /\ UNCHANGED <<req, cache, cacheEnabled, redisConnected, db, kin, kout,
                   gin, gout, cacheConfig, server>>

\* invalidateCache from the answer of KEYS on: DEL of the listed keys when
\* there are any, and keys.length returned; the catch returns 0
InvalidateDel ==
    /\ invalidated.pc = "keys"
    /\ \E delThrows \in BOOLEAN :
          IF invalidated.keys = {}
          THEN /\ invalidated' = Returned(invalidated.pattern, {}, 0)
               /\ cache' = cache
          ELSE IF delThrows \/ ~redisConnected
          THEN /\ invalidated' =
                      Returned(invalidated.pattern, invalidated.keys, 0)
               /\ cache' = cache
          ELSE /\ invalidated' =
                      Returned(invalidated.pattern, invalidated.keys,
                               Cardinality(invalidated.keys))
               /\ cache' = DeleteKeys(cache, invalidated.keys)
    /\ UNCHANGED <<req, cacheEnabled, redisConnected, db, kin, kout, gin,
                   gout, cacheConfig, server>>

ExpiryNext ==
    \/ \E r \in ExpiryRequests :
          \/ ExpiryReceive(r)
          \/ ExpiryLookup(r)
          \/ ExpiryTranslate(r)
          \/ Isolate(r)
          \/ Execute(r)
          \/ Synthesize(r)
          \/ ExpiryStore(r)
    \/ RedisDown
    \/ RedisUp
    \/ Elapse
    \/ InvalidateKeys
    \/ InvalidateDel

ExpirySpec == ExpiryInit /\ [][ExpiryNext]_vars

(***************************************************************************)
(* StartSpec: startServer, then the requests the server takes once it      *)
(* listens.  startServer awaits connectDB, awaits connectRedis and calls   *)
(* app.listen; its catch ends the process.                                 *)
(***************************************************************************)
StartRequests == {"r1", "r2"}

\* startServer was called and has connected to nothing yet
Booting == [pc |-> "starting", mongo |-> "none", redis |-> "none"]

\* connectDB: mongoose.connect resolves, or rejects and the catch rethrows
connectDB(connects) ==
    IF connects THEN [error |-> "none"]
    ELSE [error |-> "MongoDB connection failed"]

\* connectRedis whose catch rethrows, as connectDB's does
connectRedis_Rethrows(isOpen, isReady, connects) ==
    IF isOpen THEN [error |-> "none", open |-> TRUE, ready |-> isReady]
    ELSE IF connects THEN [error |-> "none", open |-> TRUE, ready |-> TRUE]
    ELSE [error |-> "Redis connection failed", open |-> FALSE,
          ready |-> FALSE]

\* connectRedis: redisClient.connect() unless the client is open; the catch
\* logs and returns, and the client that gave up is closed
connectRedis(isOpen, isReady, connects) ==
    IF isOpen THEN [error |-> "none", open |-> TRUE, ready |-> isReady]
    ELSE IF connects THEN [error |-> "none", open |-> TRUE, ready |-> TRUE]
    ELSE [error |-> "none", open |-> FALSE, ready |-> FALSE]

StartInit ==
    /\ req = [r \in StartRequests |-> IdleRequest]
    /\ cache = <<>>
    /\ cacheEnabled \in BOOLEAN
    /\ redisConnected = FALSE
    /\ db = FixtureStore
    /\ cacheConfig = LoadConfig(<<>>)
    /\ server = Booting
    /\ SpecIdle

\* await connectDB(); a rejection reaches startServer's catch:
\* process.exit(1)
StartConnectDB ==
    /\ server.pc = "starting"
    /\ \E connects \in BOOLEAN :
          LET res == connectDB(connects)
          IN  server' = IF res.error # "none"
                        THEN [server EXCEPT !.pc = "exited",
                                            !.mongo = "failed"]
                        ELSE [server EXCEPT !.pc = "mongo connected",
                                            !.mongo = "connected"]
    /\ UNCHANGED <<req, cache, cacheEnabled, redisConnected, db, kin, kout,
                   gin, gout, cacheConfig, invalidated>>

\* await connectRedis()
StartConnectRedis ==
    /\ server.pc = "mongo connected"
    /\ \E connects \in BOOLEAN :
          LET res == connectRedis(FALSE, FALSE, connects)
          IN  /\ server' = IF res.error # "none"
                           THEN [server EXCEPT !.pc = "exited",
                                               !.redis = "failed"]
                           ELSE [server EXCEPT
                                    !.pc = "redis done",
                                    !.redis = IF res.open THEN "connected"
                                              ELSE "failed"]
              /\ redisConnected' = res.ready
    /\ UNCHANGED <<req, cache, cacheEnabled, db, kin, kout, gin, gout,
                   cacheConfig, invalidated>>

\* app.listen(config.port, ...)
StartListen ==
    /\ server.pc = "redis done"
    /\ server' = [server EXCEPT !.pc = "listening"]
    /\ UNCHANGED <<req, cache, cacheEnabled, redisConnected, db, kin, kout,
                   gin, gout, cacheConfig, invalidated>>

\* a request reaches the route once the server listens
StartReceive(r) ==
    /\ server.pc = "listening"
    /\ ReceiveFrom(r, ExpiryBodies)

StartTranslate(r) == TranslateTo(r, RepeatOutputs)

\* the socket of an open client is ready again; a client that gave up
\* connecting is closed and nothing opens it
StartRedisUp ==
    /\ server.redis = "connected"
    /\ RedisUp

StartNext ==
    \/ StartConnectDB
    \/ StartConnectRedis
    \/ StartListen
    \/ \E r \in StartRequests :
          \/ StartReceive(r)
          \/ CacheLookup(r)
          \/ StartTranslate(r)
          \/ Isolate(r)
          \/ Execute(r)
          \/ Synthesize(r)
          \/ CacheStore(r)
    \/ RedisDown
    \/ StartRedisUp

StartSpec == StartInit /\ [][StartNext]_vars

(***************************************************************************)
(* ReconnectSpec: the Redis client losing its socket while the server      *)
(* answers a request.  The client calls reconnectStrategy(retries) after   *)
(* every attempt that failed, retries counting the failed attempts before  *)
(* it from 0; a number is the milliseconds to wait before the next         *)
(* attempt, an Error closes the client.                                    *)
(***************************************************************************)
MaxRetries == 10
BackoffStep == 100
BackoffCap == 3000

ReconnectRequests == {"r1"}

\* reconnectStrategy: (retries) => retries > 10 ? Error
\*                                 : Math.min(retries * 100, 3000)
reconnectStrategy(retries) ==
    IF retries > MaxRetries
    THEN [error |-> "Max reconnection attempts reached", wait |-> 0]
    ELSE [error |-> "none",
          wait |-> IF retries * BackoffStep < BackoffCap
                   THEN retries * BackoffStep ELSE BackoffCap]

\* the client with its socket ready: no failed attempt, nothing asked of
\* the strategy
SocketReady ==
    [pc |-> "listening", mongo |-> "connected", redis |-> "connected",
     socket |-> "ready", retries |-> 0, asked |-> 0, wait |-> 0]

ReconnectInit ==
    /\ req = [r \in ReconnectRequests |-> IdleRequest]
    /\ cache = <<>>
    /\ cacheEnabled = TRUE
    /\ redisConnected = TRUE
    /\ db = FixtureStore
    /\ cacheConfig = LoadConfig(<<>>)
    /\ server = SocketReady
    /\ SpecIdle

\* the socket breaks: the client is open, not ready, and connects again
SocketLost ==
    /\ server.socket = "ready"
    /\ server' = [server EXCEPT !.socket = "connecting", !.retries = 0,
                                !.asked = 0, !.wait = 0]
    /\ redisConnected' = FALSE
    /\ UNCHANGED <<req, cache, cacheEnabled, db, kin, kout, gin, gout,
                   cacheConfig, invalidated>>

\* an attempt fails and the client asks reconnectStrategy what to do
AttemptFails ==
    /\ server.socket = "connecting"
    /\ LET res == reconnectStrategy(server.retries)
       IN  server' = [server EXCEPT
                         !.socket = IF res.error # "none" THEN "closed"
                                    ELSE "waiting",
                         !.redis = IF res.error # "none" THEN "failed"
                                   ELSE @,
                         !.asked = server.retries,
                         !.wait = res.wait,
                         !.retries = @ + 1]
    /\ UNCHANGED <<req, cache, cacheEnabled, redisConnected, db, kin, kout,
                   gin, gout, cacheConfig, invalidated>>

\* the wait is over: the next attempt
WaitOver ==
    /\ server.socket = "waiting"
    /\ server' = [server EXCEPT !.socket = "connecting"]
    /\ UNCHANGED <<req, cache, cacheEnabled, redisConnected, db, kin, kout,
                   gin, gout, cacheConfig, invalidated>>

\* an attempt succeeds: the client is ready
AttemptSucceeds ==
    /\ server.socket = "connecting"
    /\ server' = [server EXCEPT !.socket = "ready", !.retries = 0,
                                !.asked = 0, !.wait = 0]
    /\ redisConnected' = TRUE
    /\ UNCHANGED <<req, cache, cacheEnabled, db, kin, kout, gin, gout,
                   cacheConfig, invalidated>>

ReconnectReceive(r) == ReceiveFrom(r, RepeatBodies)

ReconnectTranslate(r) == TranslateTo(r, RepeatOutputs)

ReconnectNext ==
    \/ \E r \in ReconnectRequests :
          \/ ReconnectReceive(r)
          \/ CacheLookup(r)
          \/ ReconnectTranslate(r)
          \/ Isolate(r)
          \/ Execute(r)
          \/ Synthesize(r)
          \/ CacheStore(r)
    \/ SocketLost
    \/ AttemptFails
    \/ WaitOver
    \/ AttemptSucceeds

ReconnectSpec == ReconnectInit /\ [][ReconnectNext]_vars

(***************************************************************************)
(* LengthSpec: questions around the limit of 500 characters, bare and      *)
(* with blanks before or after, posted to the route.                       *)
(***************************************************************************)
LengthRequests == {"r1"}

Letters(n) == [i \in 1..n |-> "a"]

Blanks(n) == [i \in 1..n |-> " "]

LengthQuestions ==
    UNION {{Letters(n),
            Blanks(1) \o Letters(n),
            Letters(n) \o Blanks(2),
            Blanks(1) \o Letters(n) \o Blanks(1)} :
             n \in {1, MaxQuestionLength - 1, MaxQuestionLength,
                    MaxQuestionLength + 1}}

LengthBodies == {Body(q, UserA) : q \in LengthQuestions}

LengthInit ==
    /\ req = [r \in LengthRequests |-> IdleRequest]
    /\ cache = <<>>
    /\ cacheEnabled \in BOOLEAN
    /\ redisConnected \in BOOLEAN
    /\ db = FixtureStore
    /\ cacheConfig = LoadConfig(<<>>)
    /\ server = Serving
    /\ SpecIdle

LengthReceive(r) == ReceiveFrom(r, LengthBodies)

LengthTranslate(r) == TranslateTo(r, RepeatOutputs)

LengthNext ==
    \E r \in LengthRequests :
        \/ LengthReceive(r)
        \/ CacheLookup(r)
        \/ LengthTranslate(r)
        \/ Isolate(r)
        \/ Execute(r)
        \/ Synthesize(r)
        \/ CacheStore(r)

LengthSpec == LengthInit /\ [][LengthNext]_vars

(***************************************************************************)
(* TimeoutSpec: which steps of a request are bound to happen.  A step      *)
(* that awaits Redis or the LLM is taken when the other side answers, and  *)
(* nothing in the code makes it answer or gives up waiting: redisClient    *)
(* is created with a reconnectStrategy only, ChatOpenAI with key, model    *)
(* and temperature only.  The steps that are bound to happen are the ones  *)
(* the process takes alone (the guard, the cache calls that return at      *)
(* once because the cache is off or Redis is not connected) and the        *)
(* driver's socketTimeoutMS, which ends a MongoDB call that gets no        *)
(* answer.                                                                 *)
(***************************************************************************)
TimeoutRequests == {"r1", "r2"}

TimeoutInit ==
    /\ req = [r \in TimeoutRequests |-> IdleRequest]
    /\ cache = <<>>
    /\ cacheEnabled \in BOOLEAN
    /\ redisConnected \in BOOLEAN
    /\ db = FixtureStore
    /\ cacheConfig = LoadConfig(<<>>)
    /\ server = Serving
    /\ SpecIdle

TimeoutReceive(r) == ReceiveFrom(r, ExpiryBodies)

TimeoutLookup(r) == CacheLookupIf(r, BOOLEAN)

TimeoutTranslate(r) == TranslateTo(r, RepeatOutputs)

TimeoutStore(r) == CacheStoreIf(r, BOOLEAN)

\* getCachedResponse returns null before any call to Redis
LookupSkipped(r) ==
    /\ ~cacheEnabled \/ ~redisConnected
    /\ TimeoutLookup(r)

\* cacheResponse returns before any call to Redis
StoreSkipped(r) ==
    /\ ~cacheEnabled \/ ~redisConnected
    /\ TimeoutStore(r)

\* socketTimeoutMS: the driver rejects the call that got no answer
StoreTimesOut(r) ==
    /\ req[r].pc = "execute"
    /\ Reject(r, "store execution", "Store call timed out")
    /\ UNCHANGED <<cache, cacheEnabled, redisConnected, db, others>>

TimeoutNext ==
    \E r \in TimeoutRequests :
        \/ TimeoutReceive(r)
        \/ TimeoutLookup(r)
        \/ TimeoutTranslate(r)
        \/ Isolate(r)
        \/ StoreTimesOut(r)
        \/ Execute(r)
        \/ Synthesize(r)
        \/ TimeoutStore(r)

TimeoutFairness ==
    \A r \in TimeoutRequests :
        /\ WF_vars(LookupSkipped(r))
        /\ WF_vars(Isolate(r))
        /\ WF_vars(StoreTimesOut(r))
        /\ WF_vars(StoreSkipped(r))

TimeoutSpec == TimeoutInit /\ [][TimeoutNext]_vars /\ TimeoutFairness

Done(r) == req[r].pc = "done"
Missed(r) == Done(r) /\ req[r].response["fromCache"] = FALSE
Hit(r) == Done(r) /\ req[r].response["fromCache"] = TRUE
KeyOf(r) == processQueryKey(req[r].userId, req[r].question)

\* C6: a result returned with fromCache = true to a user was produced and
\* stored by a request of that same user.
C6_HitServesOwnResult ==
    \A r \in Requests : Hit(r) => req[r].response["user"].id = req[r].userId

\* C9: no step of the cache fails a request.  The lookup never rejects,
\* and goes on to the translation when caching is disabled, Redis is not
\* connected, the key is absent or the entry does not parse; the cache
\* store never rejects, ends the request with fromCache = false, and leaves
\* the store alone when caching is disabled or Redis is not connected.
C9_CacheFailuresNeverFail ==
    [][\A r \in Requests :
          LET unavailable == ~cacheEnabled \/ ~redisConnected
          IN  /\ (req[r].pc = "lookup" /\ req'[r].pc # "lookup")
                    => /\ req'[r].pc # "failed"
                       /\ (\/ unavailable
                           \/ KeyOf(r) \notin DOMAIN cache
                           \/ ~cache[KeyOf(r)].parsable)
                             => req'[r].pc = "translate"
              /\ (req[r].pc = "store" /\ req'[r].pc # "store")
                    => /\ req'[r].pc = "done"
                       /\ req'[r].response["fromCache"] = FALSE
                       /\ unavailable => cache' = cache]_vars

\* a request completed as a miss although caching is enabled and nothing
\* is stored under its key: its cache store was skipped or threw
C9_Witness ==
    \E r \in Requests :
        /\ Missed(r)
        /\ cacheEnabled
        /\ KeyOf(r) \notin DOMAIN cache

FullOrder ==
    <<"cache lookup", "translation", "guard", "store execution",
      "synthesis", "cache store", "return">>

IsPrefix(s, t) == Len(s) <= Len(t) /\ SubSeq(t, 1, Len(s)) = s

\* C10: a miss performs cache lookup, translation, guard, store execution,
\* synthesis, cache store, return, in this order and once each; the store
\* is queried with the guard's output only; an entry of the cache was
\* written by a request whose synthesis succeeded.
C10_MissRunsStepsInOrder ==
    /\ \A r \in Requests :
          /\ Missed(r) => req[r].trace = FullOrder
          /\ ~Hit(r) => IsPrefix(req[r].trace, FullOrder)
          /\ req[r].executed # NoQuery
                => req[r].executed = injectUserId(req[r].parsed, req[r].userId)
    /\ \A k \in DOMAIN cache :
          \E r \in Requests :
              /\ Missed(r)
              /\ \E i \in 1..Len(req[r].trace) : req[r].trace[i] = "synthesis"
              /\ cache[k].value = Result(r)

C10_Witness ==
    \E r \in Requests :
        /\ Missed(r)
        /\ req[r].trace = FullOrder
        /\ req[r].executed # req[r].parsed
        /\ KeyOf(r) \in DOMAIN cache
        /\ cache[KeyOf(r)].value = Result(r)

\* C11: a request served from the cache (fromCache = true) has completed
\* with the cache lookup as its only step: no translation, no guard, no
\* store execution, no synthesis; the step that serves it writes neither
\* the cache nor the document store.
C11_HitSkipsPipeline ==
    [][\A r \in Requests :
          req'[r].response["fromCache"] = TRUE
             => /\ req'[r].pc = "done"
                /\ req'[r].trace = <<"cache lookup", "return">>
                /\ req'[r].parsed = NoQuery
                /\ req'[r].executed = NoQuery
                /\ req'[r].answer = "none"
                /\ req[r].pc = "lookup" => (cache' = cache /\ db' = db)]_vars

\* a request got a 200 response from the cache
C11_Witness ==
    \E r \in Requests :
        /\ Hit(r)
        /\ req[r].http.status = 200
        /\ req[r].http.body["fromCache"] = TRUE

\* C12: a failure of the translation call, of the parse, of the guard, of
\* the store execution or of the synthesis call ends the request: the
\* guard's TypeError and executeQuery's error fail the request; the failing
\* step is the last one of the request, it writes nothing to the cache,
\* the caller gets a 500 response with error, message and processingTime
\* and no field of a result; a failed request takes no further step.
C12_FailureAborts ==
    [][\A r \in Requests :
          /\ (/\ req[r].pc = "isolate"
              /\ req'[r] # req[r]
              /\ injectUserIdThrows(req[r].mongoQuery))
                => req'[r].pc = "failed"
          /\ (/\ req[r].pc = "execute"
              /\ req'[r] # req[r]
              /\ executeQuery(req[r].mongoQuery, db).error # "none")
                => req'[r].pc = "failed"
          /\ (req[r].pc # "failed" /\ req'[r].pc = "failed")
                => /\ req'[r].error # "none"
                   /\ req'[r].response = NoResponse
                   /\ req'[r].http.status = 500
                   /\ DOMAIN req'[r].http.body
                         = {"error", "message", "processingTime"}
                   /\ Len(req'[r].trace) = Len(req[r].trace) + 1
                   /\ cache' = cache
          /\ req[r].pc = "failed" => req'[r] = req[r]]_vars

\* the step a failed request ended with
FailedAt(r, step) ==
    /\ req[r].pc = "failed"
    /\ req[r].trace[Len(req[r].trace)] = step

\* the guard has failed one request and executeQuery another, and nothing
\* is cached
C12_Witness ==
    /\ cache = <<>>
    /\ \E r1, r2 \in Requests :
          /\ FailedAt(r1, "guard")
          /\ FailedAt(r2, "store execution")
          /\ req[r2].error = "Invalid collection"

\* C13: for every query whose collection is not one of the four allowed
\* ones, whatever its operation, filter or pipeline, executeQuery fails
\* with "Invalid collection" and reads nothing, on the query as parsed and
\* on the guard's output alike; the store is as it was.
C13_InvalidCollectionRejected ==
    gin.q["collection"] \notin allowedCollections
       => /\ executeQuery(gin.q, db).error = "Invalid collection"
          /\ ~executeQuery(gin.q, db).read
          /\ gout.pc = "executed"
                => /\ gout.res.error = "Invalid collection"
                   /\ ~gout.res.read
                   /\ gout.res.rows = <<>>
                   /\ db = FixtureStore

\* an aggregate on audit_log that the guard rewrote was refused
C13_Witness ==
    /\ gout.pc = "executed"
    /\ gin.q["collection"] = "audit_log"
    /\ gin.q["operation"] = "aggregate"
    /\ gout.q # gin.q
    /\ gout.res.error = "Invalid collection"

SupportedOperations == {"find", "findOne", "aggregate"}

\* C14: for every query on an allowed collection whose operation is not
\* find, findOne or aggregate, the guard returns the query unchanged and
\* executeQuery fails with "Unsupported operation" and reads nothing.
C14_UnsupportedOperationRejected ==
    (/\ gout.pc \in {"guarded", "executed"}
     /\ gin.q["collection"] \in allowedCollections
     /\ gin.q["operation"] \notin SupportedOperations)
       => /\ gout.q = gin.q
          /\ gout.pc = "executed"
                => /\ gout.res.error = "Unsupported operation"
                   /\ ~gout.res.read
                   /\ gout.res.rows = <<>>
                   /\ db = FixtureStore

\* a deleteMany with a filter on bank_transactions was refused
C14_Witness ==
    /\ gout.pc = "executed"
    /\ gin.q["collection"] = "bank_transactions"
    /\ gin.q["operation"] = "deleteMany"
    /\ "query" \in DOMAIN gin.q
    /\ gout.res.error = "Unsupported operation"

\* C15: executeQuery is read-only: after the call every collection of the
\* store holds what it held before, whatever stages the pipeline has.
C15_ExecuteQueryReadOnly ==
    gout.pc = "executed" => db = FixtureStore

\* the bodies C16 speaks of: question missing, not a string, empty after
\* trim or longer than 500 characters, or userId or userName missing
InvalidRequest(body) ==
    \/ "question" \notin DOMAIN body
    \/ "userId" \notin DOMAIN body
    \/ "userName" \notin DOMAIN body
    \/ body["question"].type # "string"
    \/ Len(trim(body["question"].value)) = 0
    \/ Len(body["question"].value) > MaxQuestionLength

C20_FailureCarriesProcessingTime ==
    \A r \in Requests :
        req[r].http.status \in {400, 500}
           => "processingTime" \in DOMAIN req[r].http.body

\* C17: with the cache available, the repeated call (same user, same
\* question, sent after the first call was answered) is answered from the
\* cache with the answer the first call returned.
C17_RepeatServedFirstAnswer ==
    req[RepeatedCall].pc = "done"
       => /\ req[RepeatedCall].response["fromCache"] = TRUE
          /\ req[RepeatedCall].response["answer"]
                = req[FirstCall].response["answer"]

\* C18: a request that stores its result under a key that already holds
\* an entry for the same user and question leaves the entry's value as it
\* was.
C18_EntriesNeverOverwritten ==
    [][\A r \in Requests :
          (/\ req[r].pc = "store"
           /\ req'[r].pc = "done"
           /\ KeyOf(r) \in DOMAIN cache
           /\ cache[KeyOf(r)].value["user"].id = req[r].userId
           /\ cache[KeyOf(r)].value["question"] = req[r].question)
             => cache'[KeyOf(r)].value = cache[KeyOf(r)].value]_vars

\* C19: of requests of one user with one question, none waits for
\* another: the lookup, the translation, the synthesis and the cache store
\* of a request can be taken whatever the others are doing; a lookup while
\* nothing is stored under the key can only miss, even while another
\* request works on that key, and a cache store can only complete the
\* request with fromCache = false, even when another request has stored
\* in between.
C19_NoSingleFlight ==
    \A r \in RepeatRequests :
        /\ req[r].pc = "lookup"
              => /\ ENABLED RepeatLookup(r)
                 /\ KeyOf(r) \notin DOMAIN cache
                       => ~ENABLED (/\ RepeatLookup(r)
                                    /\ req'[r].pc # "translate")
        /\ req[r].pc = "translate" => ENABLED RepeatTranslate(r)
        /\ req[r].pc = "synthesize" => ENABLED Synthesize(r)
        /\ req[r].pc = "store"
              => /\ ENABLED RepeatStore(r)
                 /\ ~ENABLED (/\ RepeatStore(r)
                              /\ ~(/\ req'[r].pc = "done"
                                    /\ req'[r].response["fromCache"] = FALSE))

\* the first two requests both looked up before either stored, both ran
\* the whole pipeline and both completed as misses
C19_Witness ==
    \A r \in {"r1", "r2"} :
        /\ Missed(r)
        /\ req[r].trace = FullOrder
        /\ req[r].http.body["fromCache"] = FALSE

\* C21: the message of a 500 response does not depend on the error that
\* failed the pipeline: any two failed requests get the same message.
C21_FailureMessageGeneric ==
    \A r1, r2 \in Requests :
        (req[r1].http.status = 500 /\ req[r2].http.status = 500)
           => req[r1].http.body["message"] = req[r2].http.body["message"]

\* a body with a question that passes the checks and no userId or no
\* userName
QuestionOnly(body) ==
    /\ "question" \in DOMAIN body
    /\ body["question"].type = "string"
    /\ Len(trim(body["question"].value)) > 0
    /\ Len(body["question"].value) <= MaxQuestionLength
    /\ ("userId" \notin DOMAIN body \/ "userName" \notin DOMAIN body)

ParseError == "Failed to parse query from LLM response"

C24_GuardKeepsTheRest ==
    gout.pc # "parsed"
       => LET before == gin.q
              after == gout.q
              field(q, k) == IF k \in DOMAIN q THEN <<q[k]>> ELSE <<>>
          IN  /\ \A k \in {"collection", "operation", "projection"} :
                    field(after, k) = field(before, k)
              /\ DOMAIN before \subseteq DOMAIN after
              /\ DOMAIN after \subseteq DOMAIN before \cup {"query"}
              /\ before["operation"] \in {"find", "findOne"}
                    => /\ field(after, "pipeline") = field(before, "pipeline")
                       /\ LET old == IF "query" \in DOMAIN before
                                     THEN before["query"] ELSE <<>>
                          IN  "query" \in DOMAIN after
                                 => /\ DOMAIN after["query"]
                                         \subseteq DOMAIN old \cup {"user_id"}
                                    /\ \A f \in DOMAIN old \ {"user_id"} :
                                          /\ f \in DOMAIN after["query"]
                                          /\ after["query"][f] = old[f]
              /\ before["operation"] = "aggregate"
                    => /\ field(after, "query") = field(before, "query")
                       /\ "pipeline" \in DOMAIN before
                             => \/ after["pipeline"] = before["pipeline"]
                                \/ after["pipeline"]
                                     = <<UserMatchStage(gin.t)>>
                                          \o before["pipeline"]
              /\ before["operation"] \notin SupportedOperations
                    => after = before

\* a find with a filter on other fields and a projection was scoped, and
\* so was an aggregate with two stages
C24_Witness ==
    /\ gout.pc = "guarded"
    /\ gin.q["collection"] \in TenantCollections
    /\ \/ /\ gin.q["operation"] = "find"
          /\ "projection" \in DOMAIN gin.q
          /\ "query" \in DOMAIN gin.q
          /\ DOMAIN gin.q["query"] = {"category"}
          /\ DOMAIN gout.q["query"] = {"category", "user_id"}
       \/ /\ gin.q["operation"] = "aggregate"
          /\ "pipeline" \in DOMAIN gin.q
          /\ Len(gin.q["pipeline"]) = 2
          /\ Len(gout.q["pipeline"]) = 3

\* C25: a result with fromCache = true is, the flag apart, the value held
\* under the request's cache key when it looked the key up; a value gets
\* under a key only by the cache store of a request whose translation,
\* guard, execution and synthesis succeeded; a key that holds nothing
\* (never stored, expired, invalidated) gives no hit; the result of a miss
\* has fromCache = false.
C25_HitReplaysStored ==
    [][/\ \A r \in DOMAIN req :
             /\ (req[r].pc # "done" /\ req'[r].pc = "done"
                    /\ req'[r].response["fromCache"] = TRUE)
                  => /\ req[r].pc = "lookup"
                     /\ KeyOf(r) \in DOMAIN cache
                     /\ req'[r].response
                           = SetKey(cache[KeyOf(r)].value, "fromCache", TRUE)
             /\ (req[r].pc = "lookup" /\ KeyOf(r) \notin DOMAIN cache)
                  => req'[r].pc # "done"
             /\ (req[r].pc = "store" /\ req'[r].pc = "done")
                  => req'[r].response
                        = SetKey(Result(r), "fromCache", FALSE)
       /\ \A k \in DOMAIN cache' :
             (k \notin DOMAIN cache \/ cache'[k].value # cache[k].value)
                => \E r \in DOMAIN req :
                      /\ req[r].pc = "store"
                      /\ req'[r].pc = "done"
                      /\ KeyOf(r) = k
                      /\ req[r].trace = SubSeq(FullOrder, 1, 5)
                      /\ cache'[k].value = Result(r)]_vars

\* r1 missed and stored, time passed, and r2 was served r1's result
C25_Witness ==
    /\ Missed("r1")
    /\ Hit("r2")
    /\ KeyOf("r1") = KeyOf("r2")
    /\ KeyOf("r2") \in DOMAIN cache
    /\ cache[KeyOf("r2")].ttl < cacheConfig.ttl
    /\ req["r2"].response
          = SetKey(cache[KeyOf("r2")].value, "fromCache", TRUE)
    /\ req["r2"].response
          = SetKey(req["r1"].response, "fromCache", TRUE)

\* C27: a cache store that changes the cache sets the request's key to an
\* entry with config.cache.ttl seconds left, 3600 when CACHE_TTL is not
\* set, whether or not the key held an entry; an entry's seconds grow only
\* by such a write; every entry, so every entry served as a hit, has
\* between 1 and the TTL seconds left and so is younger than the TTL; a
\* lookup of a key whose entry is gone goes on to the translation.
C27_EntriesExpireAfterTtl ==
    [][/\ cacheConfig.CACHE_TTL = <<>> => cacheConfig.ttl = 3600
       /\ \A r \in DOMAIN req :
             /\ (req[r].pc = "store" /\ req'[r].pc = "done"
                    /\ cache' # cache)
                  => cache' = SetKey(cache, KeyOf(r),
                                     Entry(Result(r), cacheConfig.ttl))
             /\ (req[r].pc = "lookup" /\ req'[r].pc = "done")
                  => /\ KeyOf(r) \in DOMAIN cache
                     /\ cache[KeyOf(r)].ttl \in 1..cacheConfig.ttl
             /\ (req[r].pc = "lookup" /\ req'[r] # req[r]
                    /\ KeyOf(r) \notin DOMAIN cache)
                  => req'[r].pc = "translate"
       /\ \A k \in DOMAIN cache' :
             /\ cache'[k].ttl \in 1..cacheConfig.ttl
             /\ (k \in DOMAIN cache /\ cache'[k].ttl > cache[k].ttl)
                  => \E r \in DOMAIN req :
                        /\ req[r].pc = "store"
                        /\ req'[r].pc = "done"
                        /\ KeyOf(r) = k]_vars

\* CACHE_TTL is not set; both requests missed on one key, the second one
\* wrote the entry again, and time went on to the last second of it
C27_Witness ==
    /\ cacheConfig.CACHE_TTL = <<>>
    /\ Missed("r1")
    /\ Missed("r2")
    /\ KeyOf("r1") = KeyOf("r2")
    /\ KeyOf("r1") \in DOMAIN cache
    /\ cache[KeyOf("r1")].ttl = 1

\* C28: when invalidateCache returns, it did not raise, and either the
\* store holds no key matching the pattern and the count returned is the
\* number of keys this call removed (so a lookup of a question cached
\* before misses), or the count is 0 and the store is as it was (not
\* connected, a store call threw, nothing matched).
C28_InvalidateRemovesAndCounts ==
    [][(invalidated.pc # "returned" /\ invalidated'.pc = "returned")
          => /\ invalidated'.error = "none"
             /\ \/ /\ MatchingKeys(invalidated'.pattern, cache') = {}
                   /\ invalidated'.count
                         = Cardinality(DOMAIN cache \ DOMAIN cache')
                \/ /\ invalidated'.count = 0
                   /\ cache' = cache]_vars

\* C26: every request that processQuery took up ends, with a result or
\* with an error, whichever of its external calls get no answer.
C26_RequestsTerminate ==
    \A r \in TimeoutRequests :
        (req[r].pc = "lookup") ~> (req[r].pc \in {"done", "failed"})

\* C29: a request with userId, userName and a question that is a string
\* and not empty after trimming is rejected as too long exactly when the
\* trimmed question has more than 500 characters: with 1 to 500 it is
\* taken up, with 501 or more it is answered 400.
C29_LengthLimitOnTrimmed ==
    \A r \in LengthRequests :
        (req[r].pc # "idle" /\ Len(trim(req[r].body["question"].value)) > 0)
           => (req[r].pc = "rejected"
                 <=> Len(trim(req[r].body["question"].value)) > 500)

\* C30: an aggregate query on a tenant-owned collection that has no
\* pipeline (the field absent or null: both are falsy for the guard and
\* for the executor, and both are a queryDef without the key here) is
\* either executed with a pipeline that starts with a match of user_id
\* against the requesting userId, or fails without reading the store.
C30_NoPipelineNeverUnscoped ==
    (/\ gout.pc = "executed"
     /\ gin.q["collection"] \in TenantCollections
     /\ gin.q["operation"] = "aggregate"
     /\ "pipeline" \notin DOMAIN gin.q)
        => \/ /\ "pipeline" \in DOMAIN gout.q
              /\ gout.q["pipeline"] # <<>>
              /\ IsRequesterMatch(gout.q["pipeline"][1], gin.t)
           \/ /\ gout.res.error # "none"
              /\ ~gout.res.read

\* C31: for every query and every non-empty userId, the guard applied to
\* its own output returns that output: no second match stage, no other
\* filter.
C31_GuardIdempotent ==
    gout.pc = "again" => gout.q = gout.once

\* both passes ran on a query the first pass had to change: a pipeline got
\* its match stage once, a filter got its user_id
C31_Witness ==
    /\ gout.pc = "again"
    /\ gin.t # <<>>
    /\ gout.once # gin.q
    /\ \/ /\ gin.q["operation"] = "aggregate"
          /\ Len(gout.once["pipeline"]) = Len(gin.q["pipeline"]) + 1
          /\ Len(gout.q["pipeline"]) = Len(gin.q["pipeline"]) + 1
       \/ /\ gin.q["operation"] = "find"
          /\ gout.q["query"]["user_id"] = gin.t

\* C32: the server listens, and a request is taken, only after connectDB
\* succeeded; a failed connectDB ends the process; a failed connectRedis
\* does not: startServer goes on to listen, and every request the server
\* then answers has fromCache = false.
C32_StartupNeedsStoreNotCache ==
    /\ server.pc = "listening" => server.mongo = "connected"
    /\ \A r \in StartRequests :
          req[r].pc # "idle"
             => server.pc = "listening" /\ server.mongo = "connected"
    /\ server.mongo = "failed" => server.pc = "exited"
    /\ server.redis = "failed"
          => /\ server.pc \in {"redis done", "listening"}
             /\ \A r \in StartRequests :
                   Done(r) => req[r].response["fromCache"] = FALSE

\* Redis could not be reached at startup, the cache is enabled, and the
\* server answered the same question twice, both times from the pipeline
C32_Witness ==
    /\ server.redis = "failed"
    /\ server.pc = "listening"
    /\ cacheEnabled
    /\ Missed("r1")
    /\ Missed("r2")
    /\ KeyOf("r1") = KeyOf("r2")

\* C33: the wait the reconnect strategy gives after n failed attempts is
\* 2^n * 100 ms, at most 3000 ms, for n up to 10, and the client gives up
\* exactly when n is more than 10.
C33_ExponentialBackoff ==
    /\ server.socket = "waiting"
          => /\ server.asked <= 10
             /\ server.wait = IF (2 ^ server.asked) * 100 < 3000
                              THEN (2 ^ server.asked) * 100 ELSE 3000
    /\ server.socket = "closed" => server.asked > 10
====
